---- MODULE Spec2Model ----
(***************************************************************************)
(* Model of cahlchang/ansible-bell.                                        *)
(*                                                                         *)
(*   Spec      the play_sound module: main() and the three per-platform    *)
(*             dispatch functions of plugins/modules/play_sound.py.        *)
(*   SpecBeep  the tone synthesizer generate_beep of create_sample_bell.py.*)
(*   SpecUtils create_default_sound of module_utils/sound_utils.py, called *)
(*             any number of times.                                        *)
(*   SpecCallback  the callback plugin: set_options, then                  *)
(*             v2_playbook_on_stats and _play_sound.                       *)
(*                                                                         *)
(* The host is part of the state: the platform, the environment variables, *)
(* the installed player binaries and the files that exist.  Every process  *)
(* the code spawns is appended to `spawned' with its outcome, which the    *)
(* host chooses: exit status 0 ("ok"), a non-zero status ("nonzero"), or   *)
(* an exception raised by subprocess.call ("raise").                       *)
(***************************************************************************)
EXTENDS Integers, Sequences, FiniteSets

VARIABLES
    \* ---- host ----
    system,         \* platform.system()
    silent,         \* os.environ.get('ANSIBLE_BELL_SILENT') == 'true'
    ci,             \* os.environ.get('CI') or os.environ.get('CONTAINER')
    installed,      \* player binaries `which' finds
    files,          \* paths for which os.path.exists is true
    \* ---- play_sound.py: main() ----
    param,          \* module.params['sound_file'] ("" when not given)
    sound_file,     \* the local sound_file ("None" for Python's None)
    pc,             \* position in main() and the function it called
    cur,            \* the Linux candidate being tried ("none" outside)
    success,        \* the local success
    spawned,        \* processes spawned so far, in order
    warnings,       \* module.warn() messages
    outcome,        \* how main() ended: exit_json, fail_json, exception
    result,         \* the sound_file that exit_json reported ("" before)
    \* ---- create_sample_bell.py: generate_beep() ----
    bpc,            \* position in generate_beep
    duration,       \* duration, in milliseconds
    framerate,      \* framerate, in Hz
    volume,         \* volume, in tenths
    n_samples,      \* the local n_samples
    written,        \* frames written to the WAV file so far
    sample,         \* the value most recently packed and written
    error,          \* the exception generate_beep raised, or "none"
    \* ---- sound_utils.py ----
    tone,           \* frequency of the beep in the temp-directory file (0: no file)
    calls,          \* the sound_type of every create_default_sound call so far
    ret,            \* what the last create_default_sound call returned
    \* ---- callback/bell.py: CallbackModule ----
    cpc,            \* position in the callback
    has_utils,      \* HAS_SOUND_UTILS
    opt_success,    \* get_option('success_sound') ("" when not set)
    opt_failure,    \* get_option('failure_sound') ("" when not set)
    success_sound,  \* self.success_sound ("None" for Python's None)
    failure_sound,  \* self.failure_sound
    stats,          \* processed host -> its summary
    handed          \* which sounds v2_playbook_on_stats gave to _play_sound

hostVars == <<system, silent, ci, installed, files>>
mainVars == <<param, sound_file, pc, cur, success, spawned, warnings, outcome, result>>
beepVars == <<bpc, duration, framerate, volume, n_samples, written, sample, error>>
utilVars == <<tone, calls, ret>>
cbVars == <<cpc, has_utils, opt_success, opt_failure, success_sound,
            failure_sound, stats, handed>>
vars == <<hostVars, mainVars, beepVars, utilVars, cbVars>>

----------------------------------------------------------------------------
(* The host.                                                               *)

Systems == {"Darwin", "Linux", "Windows", "Other"}
Players == {"afplay", "aplay", "paplay", "mplayer", "powershell"}
SpawnResults == {"ok", "nonzero", "raise"}

CustomPath == "custom.wav"
MissingPath == "missing.wav"
DefaultPath == "ansible_bell_default.wav"

\* subprocess.call(["which", b]): exit 0 when b is on the PATH, 1 when it is
\* not; the spawn of `which' itself can raise (no `which' on the host).
WhichResults(b) == {IF b \in installed THEN "ok" ELSE "nonzero", "raise"}

\* subprocess.call([b, ...]) of a player: any exit status, or an exception.
PlayResults(b) == SpawnResults

\* A spawned process: a detection (`which' prog) or a player run on the
\* sound file `file'; res is how it ended.
Which(b, r) == [kind |-> "which", prog |-> b, res |-> r, file |-> ""]
Play(b, r) == [kind |-> "play", prog |-> b, res |-> r, file |-> sound_file]

----------------------------------------------------------------------------
(* play_sound.py                                                           *)

MainInit ==
    /\ system \in Systems
    /\ silent \in BOOLEAN
    /\ ci \in BOOLEAN
    /\ installed \in SUBSET Players
    /\ files = {CustomPath}
    /\ param \in {"", CustomPath, MissingPath}
    /\ sound_file = param
    /\ pc = "main_start"
    /\ cur = "none"
    /\ success = FALSE
    /\ spawned = <<>>
    /\ warnings = <<>>
    /\ outcome = "running"
    /\ result = ""

\* module.fail_json(msg=...): reports the failure and exits the process.
fail_json ==
    /\ pc' = "done"
    /\ outcome' = "fail_json"
    /\ result' = result

\* create_default_sound(): writes the default beep to the temp directory and
\* returns its path, or returns None when anything raised.
create_default_sound(ok) ==
    IF ok
    THEN /\ files' = files \cup {DefaultPath}
         /\ sound_file' = DefaultPath
    ELSE /\ files' = files
         /\ sound_file' = "None"

\* main(), lines 254-269: the default sound when no sound_file is given.
main_start ==
    /\ pc = "main_start"
    /\ IF sound_file = ""
       THEN \E ok \in BOOLEAN :
              /\ create_default_sound(ok)
              /\ IF sound_file' = "None"
                 THEN fail_json
                 ELSE pc' = "main_exists" /\ UNCHANGED <<outcome, result>>
       ELSE /\ pc' = "main_exists"
            /\ UNCHANGED <<files, sound_file, outcome, result>>
    /\ UNCHANGED <<system, silent, ci, installed, param, cur, success,
                   spawned, warnings>>

main_exists_skip ==
    /\ pc = "main_exists"
    /\ pc' = "main_dispatch"
    /\ UNCHANGED <<outcome, result>>
    /\ UNCHANGED <<hostVars, param, sound_file, cur, success, spawned, warnings>>

\* main(), lines 271-277: the sound file must exist.
main_exists ==
    /\ pc = "main_exists"
    /\ IF sound_file \notin files
       THEN fail_json
       ELSE pc' = "main_dispatch" /\ UNCHANGED <<outcome, result>>
    /\ UNCHANGED <<hostVars, param, sound_file, cur, success, spawned, warnings>>

main_dispatch_nosilent ==
    /\ pc = "main_dispatch"
    /\ CASE system = "Darwin" -> success' = FALSE /\ pc' = "macos_check"
         [] system = "Linux" -> success' = FALSE /\ pc' = "linux_entry"
         [] system = "Windows" -> success' = FALSE /\ pc' = "windows_check"
         [] OTHER -> success' = TRUE /\ pc' = "main_finish"
    /\ UNCHANGED <<hostVars, param, sound_file, cur, spawned, warnings, outcome, result>>

main_dispatch_nodefault ==
    /\ pc = "main_dispatch"
    /\ IF silent
       THEN success' = TRUE /\ pc' = "main_finish"
       ELSE CASE system = "Darwin" -> success' = FALSE /\ pc' = "macos_check"
              [] system = "Windows" -> success' = FALSE /\ pc' = "windows_check"
              [] OTHER -> success' = FALSE /\ pc' = "linux_entry"
    /\ UNCHANGED <<hostVars, param, sound_file, cur, spawned, warnings, outcome, result>>

\* main(), lines 279-309: silent mode, then the platform's function.
main_dispatch ==
    /\ pc = "main_dispatch"
    /\ IF silent
       THEN success' = TRUE /\ pc' = "main_finish"
       ELSE CASE system = "Darwin" -> success' = FALSE /\ pc' = "macos_check"
              [] system = "Linux" -> success' = FALSE /\ pc' = "linux_entry"
              [] system = "Windows" -> success' = FALSE /\ pc' = "windows_check"
              [] OTHER -> success' = TRUE /\ pc' = "main_finish"
    /\ UNCHANGED <<hostVars, param, sound_file, cur, spawned, warnings, outcome, result>>

\* A function called by main() returns r: success = r, back in main().
return(r) ==
    /\ success' = r
    /\ pc' = "main_finish"
    /\ cur' = "none"

\* play_sound_macos, lines 100-103 and 108-113: `which afplay'.
macos_check ==
    /\ pc = "macos_check"
    /\ \E r \in WhichResults("afplay") :
         /\ spawned' = Append(spawned, Which("afplay", r))
         /\ IF r = "ok"
            THEN pc' = "macos_play" /\ UNCHANGED <<success, cur>>
            ELSE return(FALSE)
    /\ UNCHANGED <<hostVars, param, sound_file, warnings, outcome, result>>

macos_play_uncaught ==
    /\ pc = "macos_play"
    /\ \E r \in PlayResults("afplay") :
         /\ spawned' = Append(spawned, Play("afplay", r))
         /\ IF r = "raise"
            THEN /\ pc' = "done"
                 /\ outcome' = "exception"
                 /\ result' = result
                 /\ UNCHANGED <<success, cur>>
            ELSE return(r = "ok") /\ UNCHANGED <<outcome, result>>
    /\ UNCHANGED <<hostVars, param, sound_file, warnings>>

\* play_sound_macos, lines 104-107 and 111-113: afplay -v volume file.
macos_play ==
    /\ pc = "macos_play"
    /\ \E r \in PlayResults("afplay") :
         /\ spawned' = Append(spawned, Play("afplay", r))
         /\ return(r = "ok")
    /\ UNCHANGED <<outcome, result>>
    /\ UNCHANGED <<hostVars, param, sound_file, warnings>>

\* play_sound_linux: the candidates in the order of the three try blocks
\* (lines 125, 138, 151).
LinuxFirst == "aplay"
LinuxNext(b) ==
    CASE b = "aplay" -> "paplay"
      [] b = "paplay" -> "mplayer"
      [] OTHER -> "none"

\* The code after the try block of candidate b: the next try block, or the
\* tail of the function after the last.
linux_fallthrough(b) ==
    /\ cur' = LinuxNext(b)
    /\ pc' = IF LinuxNext(b) = "none" THEN "linux_tail" ELSE "linux_check"
    /\ success' = success

\* play_sound_linux, lines 118-123: silent mode is checked once more.
linux_entry ==
    /\ pc = "linux_entry"
    /\ IF silent
       THEN return(TRUE)
       ELSE pc' = "linux_check" /\ cur' = LinuxFirst /\ success' = success
    /\ UNCHANGED <<hostVars, param, sound_file, spawned, warnings, outcome, result>>

\* play_sound_linux, lines 127-129, 140-142, 153-155 (and the except of the
\* block): `which b'.
linux_check(b) ==
    /\ pc = "linux_check"
    /\ cur = b
    /\ \E r \in WhichResults(b) :
         /\ spawned' = Append(spawned, Which(b, r))
         /\ IF r = "ok"
            THEN pc' = "linux_play" /\ UNCHANGED <<success, cur>>
            ELSE linux_fallthrough(b)
    /\ UNCHANGED <<hostVars, param, sound_file, warnings, outcome, result>>

linux_play_nofallback(b) ==
    /\ pc = "linux_play"
    /\ cur = b
    /\ \E r \in PlayResults(b) :
         /\ spawned' = Append(spawned, Play(b, r))
         /\ IF r \in {"ok", "nonzero"}
            THEN return(TRUE)
            ELSE linux_fallthrough(b)
    /\ UNCHANGED <<hostVars, param, sound_file, warnings, outcome, result>>

linux_play_noreturn(b) ==
    /\ pc = "linux_play"
    /\ cur = b
    /\ \E r \in PlayResults(b) :
         /\ spawned' = Append(spawned, Play(b, r))
         /\ linux_fallthrough(b)
    /\ UNCHANGED <<hostVars, param, sound_file, warnings, outcome, result>>

\* play_sound_linux, lines 130-136, 143-149, 156-163: the player is run;
\* exit status 0 returns True, anything else falls through.
linux_play(b) ==
    /\ pc = "linux_play"
    /\ cur = b
    /\ \E r \in PlayResults(b) :
         /\ spawned' = Append(spawned, Play(b, r))
         /\ IF r = "ok"
            THEN return(TRUE)
            ELSE linux_fallthrough(b)
    /\ UNCHANGED <<hostVars, param, sound_file, warnings, outcome, result>>

\* play_sound_linux, lines 165-172: no candidate played; True either way
\* (the two branches differ in the line printed only).
linux_tail ==
    /\ pc = "linux_tail"
    /\ IF ci THEN return(TRUE) ELSE return(TRUE)
    /\ UNCHANGED <<hostVars, param, sound_file, spawned, warnings, outcome, result>>

\* play_sound_windows, lines 178-185 and 207-209: `which powershell'.
windows_check ==
    /\ pc = "windows_check"
    /\ \E r \in WhichResults("powershell") :
         /\ spawned' = Append(spawned, Which("powershell", r))
         /\ IF r = "ok"
            THEN pc' = "windows_play" /\ UNCHANGED <<success, cur>>
            ELSE return(FALSE)
    /\ UNCHANGED <<hostVars, param, sound_file, warnings, outcome, result>>

\* play_sound_windows, lines 187-209: powershell -Command ...
windows_play ==
    /\ pc = "windows_play"
    /\ \E r \in PlayResults("powershell") :
         /\ spawned' = Append(spawned, Play("powershell", r))
         /\ return(r = "ok")
    /\ UNCHANGED <<hostVars, param, sound_file, warnings, outcome, result>>

main_finish_reports_param ==
    /\ pc = "main_finish"
    /\ IF ~success
       THEN /\ warnings' = Append(warnings, "Failed to play sound")
            /\ success' = TRUE
       ELSE UNCHANGED <<warnings, success>>
    /\ pc' = "done"
    /\ outcome' = "exit_json"
    /\ result' = param
    /\ UNCHANGED <<hostVars, param, sound_file, cur, spawned>>

\* main(), lines 311-329: a failed playback is warned about, never failed;
\* then module.exit_json.
main_finish ==
    /\ pc = "main_finish"
    /\ IF ~success
       THEN /\ warnings' = Append(warnings, "Failed to play sound")
            /\ success' = TRUE
       ELSE UNCHANGED <<warnings, success>>
    /\ pc' = "done"
    /\ outcome' = "exit_json"
    /\ result' = sound_file
    /\ UNCHANGED <<hostVars, param, sound_file, cur, spawned>>

----------------------------------------------------------------------------
(* create_sample_bell.py: generate_beep(filename, duration, start_freq,    *)
(* end_freq, volume, framerate).                                           *)
(*                                                                         *)
(* Floats are fixed-point here: duration in milliseconds, volume in        *)
(* tenths, the value of math.sin in thousandths.  On the inputs below      *)
(* Python's double arithmetic followed by int() gives the same integers as *)
(* the exact products truncated toward zero.  The frequencies enter the    *)
(* argument of math.sin only, and math.sin is modelled by its range: any   *)
(* value of [-1, 1] on a grid, and exactly 0 for the first sample, whose   *)
(* argument is 0.                                                          *)

\* The grid of math.sin's range has 2 * SinSteps + 1 points.
SinSteps == 2
SinValues == {(k * 1000) \div SinSteps : k \in (-SinSteps)..SinSteps}

\* math.sin(2.0 * math.pi * current_freq * (i / framerate)), line 33.
SinAt(i) == IF i = 0 THEN {0} ELSE SinValues

Durations == {-300, 0, 1, 300}
Framerates == {-8000, 0, 500, 1600, 44100}
Volumes == {-1, 0, 8, 10, 11}

\* int(x) of Python for x = a / b, b > 0: truncation toward zero.
TruncDiv(a, b) == IF a >= 0 THEN a \div b ELSE -((-a) \div b)

\* The nearest integer to a / b, b > 0 (halves away from zero).
RoundDiv(a, b) == IF a >= 0 THEN (2 * a + b) \div (2 * b)
                  ELSE -((2 * (-a) + b) \div (2 * b))

NSamplesRounded(d, r) == RoundDiv(d * r, 1000)

\* Line 17: n_samples = int(duration * framerate).
NSamples(d, r) == TruncDiv(d * r, 1000)

\* Line 20.
max_amplitude == 32767

SampleValueWide(s, v) == TruncDiv(s * (max_amplitude + 1) * v, 10000)

\* Line 35: int(sample_value * max_amplitude * volume).
SampleValue(s, v) == TruncDiv(s * max_amplitude * v, 10000)

\* struct.pack('<h', x) raises struct.error outside the 16-bit range.
Packs(x) == x \in -32768..32767

BeepInit ==
    /\ bpc = "start"
    /\ duration \in Durations
    /\ framerate \in Framerates
    /\ volume \in Volumes
    /\ n_samples = 0
    /\ written = 0
    /\ sample = 0
    /\ error = "none"

raise(e) ==
    /\ error' = e
    /\ bpc' = "done"

\* Lines 17-23: n_samples, and freq_increment = (end - start) / n_samples.
beep_start ==
    /\ bpc = "start"
    /\ n_samples' = NSamples(duration, framerate)
    /\ IF n_samples' = 0
       THEN raise("ZeroDivisionError")
       ELSE bpc' = "open" /\ error' = error
    /\ UNCHANGED <<duration, framerate, volume, written, sample>>

\* Lines 26-30: wave.open and setparams, which refuses framerate <= 0.
beep_open ==
    /\ bpc = "open"
    /\ IF framerate <= 0
       THEN raise("wave.Error")
       ELSE bpc' = "loop" /\ error' = error
    /\ UNCHANGED <<duration, framerate, volume, n_samples, written, sample>>

\* Lines 31-39: one iteration of the loop, i = written.
beep_write ==
    /\ bpc = "loop"
    /\ written < n_samples
    /\ \E s \in SinAt(written) :
         IF Packs(SampleValue(s, volume))
         THEN /\ sample' = SampleValue(s, volume)
              /\ written' = written + 1
              /\ UNCHANGED <<bpc, error>>
         ELSE /\ raise("struct.error")
              /\ UNCHANGED <<sample, written>>
    /\ UNCHANGED <<duration, framerate, volume, n_samples>>

\* Line 31, range(n_samples) exhausted: the file is closed, the call returns.
beep_close ==
    /\ bpc = "loop"
    /\ written >= n_samples
    /\ bpc' = "done"
    /\ UNCHANGED <<duration, framerate, volume, n_samples, written, sample, error>>

----------------------------------------------------------------------------
(* module_utils/sound_utils.py                                             *)

SuccessSample == "sample_sounds/success_sound.wav"
FailureSample == "sample_sounds/failure_sound.wav"

\* Line 36: f"{sound_type}_sound.wav" in the sample_sounds directory.
SamplePath(t) == IF t = "failure" THEN FailureSample ELSE SuccessSample

\* get_default_sound_path(sound_type): the bundled sample when it exists,
\* else the one file of the temp directory, whatever the sound_type.
get_default_sound_path(t, fl) ==
    IF SamplePath(t) \in fl THEN SamplePath(t) ELSE DefaultPath

\* Lines 68-72: 440 Hz, 330 Hz for 'failure'.
Frequency(t) == IF t = "failure" THEN 330 ELSE 440

\* create_default_sound(sound_type) of sound_utils.py on the files fl, the
\* temp-directory file holding the tone tn: the files and the tone after
\* the call, and what it returned.  ok: writing the WAV file does not raise.
sound_utils_create_default_sound(t, fl, tn, ok) ==
    LET path == get_default_sound_path(t, fl) IN
    IF path \in fl
    THEN [files |-> fl, tone |-> tn, ret |-> path]
    ELSE IF ok
         THEN [files |-> fl \cup {DefaultPath}, tone |-> Frequency(t),
               ret |-> DefaultPath]
         ELSE [files |-> fl, tone |-> tn, ret |-> "None"]

\* Calls of create_default_sound in one run.
MaxCalls == 4

\* One call of create_default_sound(t).
utils_call(t) ==
    /\ Len(calls) < MaxCalls
    /\ \E ok \in BOOLEAN :
         LET r == sound_utils_create_default_sound(t, files, tone, ok) IN
           /\ files' = r.files
           /\ tone' = r.tone
           /\ ret' = r.ret
    /\ calls' = Append(calls, t)

----------------------------------------------------------------------------
(* callback/bell.py: CallbackModule                                        *)

FailurePath == "failure.wav"

\* Hosts in stats.processed.
MaxHosts == 2
Hosts == 1..MaxHosts
Summaries == [failures : {0, 1}, unreachable : {0, 1}]
StatsValues == UNION {[hs -> Summaries] : hs \in SUBSET Hosts}

\* _create_default_sound(self): always writes the 440 Hz beep to the
\* temp-directory file, or returns None when writing raised.
cb_create_default_sound(fl, tn, ok) ==
    IF ok
    THEN [files |-> fl \cup {DefaultPath}, tone |-> 440, ret |-> DefaultPath]
    ELSE [files |-> fl, tone |-> tn, ret |-> "None"]

\* Lines 93-97 and 99-103: the configured sound when it is set and exists,
\* else a default sound of type t.
cb_default(t, opt, fl, tn, ok) ==
    IF opt = "" \/ opt \notin fl
    THEN IF has_utils
         THEN sound_utils_create_default_sound(t, fl, tn, ok)
         ELSE cb_create_default_sound(fl, tn, ok)
    ELSE [files |-> fl, tone |-> tn, ret |-> opt]

\* The players of the callback are run without a detection: a binary that
\* is not installed makes subprocess.call raise.
CbPlayResults(b) == IF b \in installed THEN SpawnResults ELSE {"raise"}

cbConfig == <<system, silent, ci, installed, has_utils, opt_success,
              opt_failure, stats>>
cbUnused == <<param, pc, success, outcome, result, beepVars>>

CallbackInit ==
    /\ system \in Systems
    /\ silent = FALSE
    /\ ci = FALSE
    /\ installed \in (SUBSET {"aplay", "paplay", "mplayer"}) \cup {Players}
    /\ files \in {{CustomPath, FailurePath},
                  {CustomPath, FailurePath, SuccessSample, FailureSample}}
    /\ tone = 0
    /\ calls = <<>>
    /\ ret = ""
    /\ cpc = "set_options"
    /\ has_utils \in BOOLEAN
    /\ opt_success \in {"", CustomPath}
    /\ opt_failure \in {"", FailurePath, MissingPath}
    /\ success_sound = "None"
    /\ failure_sound = "None"
    /\ stats \in StatsValues
    /\ handed = <<>>

\* set_options, lines 85-103.
cb_set_options ==
    /\ cpc = "set_options"
    /\ \E ok1, ok2 \in BOOLEAN :
         LET s == cb_default("success", opt_success, files, tone, ok1)
             f == cb_default("failure", opt_failure, s.files, s.tone, ok2)
         IN /\ success_sound' = s.ret
            /\ failure_sound' = f.ret
            /\ files' = f.files
            /\ tone' = f.tone
            /\ ret' = f.ret
    /\ calls' = calls
                 \o (IF has_utils /\ (opt_success = "" \/ opt_success \notin files)
                     THEN <<"success">> ELSE <<>>)
                 \o (IF has_utils /\ (opt_failure = "" \/ opt_failure \notin files)
                     THEN <<"failure">> ELSE <<>>)
    /\ cpc' = "stats"
    /\ UNCHANGED <<cbConfig, cbUnused, handed, sound_file, cur, spawned, warnings>>

\* _play_sound(sound_file), lines 138-146 and 158: nothing without the
\* file; else the platform's first player.
cb_play_entry(f) ==
    /\ sound_file' = f
    /\ IF f = "None" \/ f \notin files
       THEN cpc' = "done" /\ cur' = cur
       ELSE CASE system = "Darwin" -> cpc' = "cb_darwin" /\ cur' = cur
              [] system = "Linux" -> cpc' = "cb_linux" /\ cur' = LinuxFirst
              [] system = "Windows" -> cpc' = "cb_windows" /\ cur' = cur
              [] OTHER -> cpc' = "done" /\ cur' = cur

cb_on_stats_failures_only ==
    /\ cpc = "stats"
    /\ LET failures == \E h \in DOMAIN stats : stats[h].failures > 0
       IN IF failures
          THEN handed' = Append(handed, "failure") /\ cb_play_entry(failure_sound)
          ELSE handed' = Append(handed, "success") /\ cb_play_entry(success_sound)
    /\ UNCHANGED <<cbConfig, cbUnused, utilVars, files, success_sound,
                   failure_sound, spawned, warnings>>

\* v2_playbook_on_stats, lines 173-190, into _play_sound.
cb_on_stats ==
    /\ cpc = "stats"
    /\ LET failures == \E h \in DOMAIN stats : stats[h].failures > 0
           unreachable == \E h \in DOMAIN stats : stats[h].unreachable > 0
       IN IF failures \/ unreachable
          THEN handed' = Append(handed, "failure") /\ cb_play_entry(failure_sound)
          ELSE handed' = Append(handed, "success") /\ cb_play_entry(success_sound)
    /\ UNCHANGED <<cbConfig, cbUnused, utilVars, files, success_sound,
                   failure_sound, spawned, warnings>>

\* Lines 170-171: except Exception -> self._display.warning.
cb_warn == warnings' = Append(warnings, "Failed to play sound")

\* _play_sound, line 145: afplay; its exit status is not looked at, an
\* exception is warned about.
cb_darwin_play ==
    /\ cpc = "cb_darwin"
    /\ \E r \in CbPlayResults("afplay") :
         /\ spawned' = Append(spawned, Play("afplay", r))
         /\ IF r = "raise" THEN cb_warn ELSE warnings' = warnings
    /\ cpc' = "done"
    /\ UNCHANGED <<cbConfig, cbUnused, utilVars, files, success_sound,
                   failure_sound, handed, sound_file, cur>>

\* _play_sound, lines 158-169: powershell, handled like afplay.
cb_windows_play ==
    /\ cpc = "cb_windows"
    /\ \E r \in CbPlayResults("powershell") :
         /\ spawned' = Append(spawned, Play("powershell", r))
         /\ IF r = "raise" THEN cb_warn ELSE warnings' = warnings
    /\ cpc' = "done"
    /\ UNCHANGED <<cbConfig, cbUnused, utilVars, files, success_sound,
                   failure_sound, handed, sound_file, cur>>

\* _play_sound, lines 147-157: aplay, in its except paplay, in its except
\* mplayer; only an exception leads to the next, and the exception of
\* mplayer reaches the outer except.
cb_linux_play(b) ==
    /\ cpc = "cb_linux"
    /\ cur = b
    /\ \E r \in CbPlayResults(b) :
         /\ spawned' = Append(spawned, Play(b, r))
         /\ IF r = "raise"
            THEN IF LinuxNext(b) = "none"
                 THEN cb_warn /\ cpc' = "done" /\ cur' = "none"
                 ELSE warnings' = warnings /\ cpc' = cpc /\ cur' = LinuxNext(b)
            ELSE warnings' = warnings /\ cpc' = "done" /\ cur' = "none"
    /\ UNCHANGED <<cbConfig, cbUnused, utilVars, files, success_sound,
                   failure_sound, handed, sound_file>>

----------------------------------------------------------------------------
(* The specifications.                                                     *)

HostIdle ==
    /\ system = "Other"
    /\ silent = FALSE
    /\ ci = FALSE
    /\ installed = {}

MainIdle ==
    /\ HostIdle
    /\ files = {}
    /\ param = ""
    /\ sound_file = ""
    /\ pc = "idle"
    /\ cur = "none"
    /\ success = FALSE
    /\ spawned = <<>>
    /\ warnings = <<>>
    /\ outcome = "running"
    /\ result = ""

BeepIdle ==
    /\ bpc = "idle"
    /\ duration = 0
    /\ framerate = 0
    /\ volume = 0
    /\ n_samples = 0
    /\ written = 0
    /\ sample = 0
    /\ error = "none"

CbIdle ==
    /\ cpc = "idle"
    /\ has_utils = TRUE
    /\ opt_success = ""
    /\ opt_failure = ""
    /\ success_sound = "None"
    /\ failure_sound = "None"
    /\ stats = <<>>
    /\ handed = <<>>

PluginIdle ==
    /\ tone = 0
    /\ calls = <<>>
    /\ ret = ""
    /\ cpc = "idle"
    /\ has_utils = TRUE
    /\ opt_success = ""
    /\ opt_failure = ""
    /\ success_sound = "None"
    /\ failure_sound = "None"
    /\ stats = <<>>
    /\ handed = <<>>

Init == MainInit /\ BeepIdle /\ PluginIdle

Next ==
    \/ main_start /\ UNCHANGED <<beepVars, utilVars, cbVars>>
    \/ main_exists /\ UNCHANGED <<beepVars, utilVars, cbVars>>
    \/ main_dispatch /\ UNCHANGED <<beepVars, utilVars, cbVars>>
    \/ macos_check /\ UNCHANGED <<beepVars, utilVars, cbVars>>
    \/ macos_play /\ UNCHANGED <<beepVars, utilVars, cbVars>>
    \/ linux_entry /\ UNCHANGED <<beepVars, utilVars, cbVars>>
    \/ \E b \in {"aplay", "paplay", "mplayer"} :
         linux_check(b) /\ UNCHANGED <<beepVars, utilVars, cbVars>>
    \/ \E b \in {"aplay", "paplay", "mplayer"} :
         linux_play(b) /\ UNCHANGED <<beepVars, utilVars, cbVars>>
    \/ linux_tail /\ UNCHANGED <<beepVars, utilVars, cbVars>>
    \/ windows_check /\ UNCHANGED <<beepVars, utilVars, cbVars>>
    \/ windows_play /\ UNCHANGED <<beepVars, utilVars, cbVars>>
    \/ main_finish /\ UNCHANGED <<beepVars, utilVars, cbVars>>

Spec == Init /\ [][Next]_vars

InitBeep == MainIdle /\ BeepInit /\ PluginIdle

NextBeep ==
    \/ beep_start /\ UNCHANGED <<hostVars, mainVars, utilVars, cbVars>>
    \/ beep_open /\ UNCHANGED <<hostVars, mainVars, utilVars, cbVars>>
    \/ beep_write /\ UNCHANGED <<hostVars, mainVars, utilVars, cbVars>>
    \/ beep_close /\ UNCHANGED <<hostVars, mainVars, utilVars, cbVars>>

SpecBeep == InitBeep /\ [][NextBeep]_vars

ProgIdle ==
    /\ param = ""
    /\ sound_file = ""
    /\ pc = "idle"
    /\ cur = "none"
    /\ success = FALSE
    /\ spawned = <<>>
    /\ warnings = <<>>
    /\ outcome = "running"
    /\ result = ""

InitUtils ==
    /\ HostIdle
    /\ files \in SUBSET {SuccessSample, FailureSample}
    /\ ProgIdle
    /\ BeepIdle
    /\ CbIdle
    /\ tone = 0
    /\ calls = <<>>
    /\ ret = ""

NextUtils ==
    \/ utils_call("success")
         /\ UNCHANGED <<system, silent, ci, installed, mainVars, beepVars, cbVars>>
    \/ utils_call("failure")
         /\ UNCHANGED <<system, silent, ci, installed, mainVars, beepVars, cbVars>>

SpecUtils == InitUtils /\ [][NextUtils]_vars

InitCallback == CallbackInit /\ ProgIdle /\ BeepIdle

NextCallback ==
    \/ cb_set_options
    \/ cb_on_stats
    \/ cb_darwin_play
    \/ cb_windows_play
    \/ \E b \in {"aplay", "paplay", "mplayer"} : cb_linux_play(b)

SpecCallback == InitCallback /\ [][NextCallback]_vars

----------------------------------------------------------------------------
(* Properties of play_sound.py.                                            *)

LinuxPlayers == {"aplay", "paplay", "mplayer"}
Rank(b) == CASE b = "aplay" -> 1 [] b = "paplay" -> 2 [] b = "mplayer" -> 3
             [] OTHER -> 0

\* A backend played the sound: its process exited with status 0.
PlayedOk == \E i \in DOMAIN spawned :
               spawned[i].kind = "play" /\ spawned[i].res = "ok"

\* main() got past the existence check of lines 271-277.
FileEstablished ==
    /\ pc \notin {"main_start", "main_exists"}
    /\ sound_file \in files

\* The platform function has returned to main().
Dispatched == pc \in {"main_finish", "done"} /\ FileEstablished

\* C1: once main() has established that the sound file exists it never
\* fails and never dies of an exception, it can always take its next step
\* until it is done, and it is done exactly with exit_json.
C1_AlwaysExitJson ==
    FileEstablished =>
        /\ outcome \in {"running", "exit_json"}
        /\ (pc = "done") <=> (outcome = "exit_json")
        /\ (pc # "done") => ENABLED Next

\* C1's case: Linux, not silent, none of the three players installed, every
\* detection done, and main() ended in exit_json.
C1_Witness ==
    /\ system = "Linux"
    /\ ~silent
    /\ installed \cap LinuxPlayers = {}
    /\ Len(spawned) = 3
    /\ pc = "done"
    /\ outcome = "exit_json"

\* C2: on Linux a player is run only after every player of higher priority
\* (aplay, then paplay, then mplayer) failed: was absent, raised, or exited
\* non-zero; and once play_sound_linux has returned, every failure of a
\* player was followed by the detection of the next one, and by its run
\* when it was found.
C2_LinuxPriorityOrder ==
    system = "Linux" =>
        /\ \A i \in DOMAIN spawned :
             spawned[i].kind = "play" =>
               \A h \in LinuxPlayers :
                 Rank(h) < Rank(spawned[i].prog) =>
                   /\ \E j \in 1..(i - 1) :
                        spawned[j].prog = h /\ spawned[j].res # "ok"
                   /\ \A j \in 1..(i - 1) :
                        (spawned[j].prog = h /\ spawned[j].kind = "play")
                          => spawned[j].res # "ok"
        /\ Dispatched =>
             \A i \in DOMAIN spawned :
               (spawned[i].res # "ok" /\ LinuxNext(spawned[i].prog) # "none") =>
                 \E j \in (i + 1)..Len(spawned) :
                   /\ spawned[j].kind = "which"
                   /\ spawned[j].prog = LinuxNext(spawned[i].prog)
                   /\ spawned[j].res = "ok" =>
                        /\ j + 1 <= Len(spawned)
                        /\ spawned[j + 1].kind = "play"
                        /\ spawned[j + 1].prog = spawned[j].prog

\* C2's case: aplay exited non-zero, paplay raised, mplayer played.
C2_Witness ==
    /\ system = "Linux"
    /\ pc = "done"
    /\ spawned = << Which("aplay", "ok"), Play("aplay", "nonzero"),
                    Which("paplay", "ok"), Play("paplay", "raise"),
                    Which("mplayer", "ok"), Play("mplayer", "ok") >>

\* C3: in one call no player is run twice and none is detected twice, and a
\* player's exit with status 0 is the last process the call spawns.
C3_AtMostOnceAndStop ==
    /\ \A i, j \in DOMAIN spawned :
         (spawned[i].kind = spawned[j].kind /\ spawned[i].prog = spawned[j].prog)
           => i = j
    /\ \A i \in DOMAIN spawned :
         (spawned[i].kind = "play" /\ spawned[i].res = "ok")
           => i = Len(spawned)

\* C3's case: aplay and paplay are both installed, aplay played, and the
\* call ended without touching paplay.
C3_Witness ==
    /\ system = "Linux"
    /\ {"aplay", "paplay", "mplayer"} \subseteq installed
    /\ pc = "done"
    /\ spawned = << Which("aplay", "ok"), Play("aplay", "ok") >>

C5_MissingFileFails ==
    (param # "" /\ param \notin files) =>
        /\ spawned = <<>>
        /\ pc \in {"main_start", "main_exists", "done"}
        /\ pc = "done" => outcome = "fail_json"
        /\ pc # "done" => (outcome = "running" /\ ENABLED Next)

\* C5's case: the missing file in silent mode, ended in fail_json.
C5_Witness ==
    /\ param = MissingPath
    /\ silent
    /\ pc = "done"
    /\ outcome = "fail_json"

\* C7: a call that dispatched to a platform function warns exactly when no
\* backend played: every candidate exhausted gives a warning, a successful
\* playback gives none; on macOS, Linux and Windows alike.
C7_WarnOnExhaustion ==
    (pc = "done" /\ FileEstablished /\ ~silent
       /\ system \in {"Darwin", "Linux", "Windows"}) =>
        /\ outcome = "exit_json"
        /\ PlayedOk => warnings = <<>>
        /\ ~PlayedOk => warnings # <<>>

\* C10: on a platform other than macOS, Linux and Windows nothing is ever
\* spawned, and a call that reached the dispatch ends in exit_json without
\* a warning.
C10_OtherPlatformNoSpawn ==
    system \notin {"Darwin", "Linux", "Windows"} =>
        /\ spawned = <<>>
        /\ (pc = "done" /\ FileEstablished) =>
             (outcome = "exit_json" /\ warnings = <<>>)

\* C10's case: another platform, not silent, every player installed.
C10_Witness ==
    /\ system = "Other"
    /\ ~silent
    /\ installed = Players
    /\ pc = "done"
    /\ outcome = "exit_json"

----------------------------------------------------------------------------
(* Properties of generate_beep.                                            *)

\* The tone specification breaks a rule of the synthesizer's contract.
InvalidSpec == duration <= 0 \/ framerate <= 0 \/ volume \notin 0..10

\* C6: an invalid tone specification (duration <= 0, sample rate <= 0, or
\* volume outside [0, 1]) writes no sample and ends in an error.
C6_InvalidSpecRejected ==
    InvalidSpec =>
        /\ written = 0
        /\ bpc = "done" => error # "none"

\* C8 as stated: a valid tone specification that ran to its end wrote
\* round(duration * sample rate) samples, the nearest integer.
C8_RoundedCount ==
    (~InvalidSpec /\ bpc = "done" /\ error = "none") =>
        written = RoundDiv(duration * framerate, 1000)

\* C8 as amended: for a valid tone specification the number of samples
\* written never exceeds, and at the end equals, duration * sample rate
\* truncated toward zero: 13230 for 0.3 s at 44100 Hz; and the call raises
\* only when that number is 0.
C8_TruncatedCount ==
    ~InvalidSpec =>
        /\ written <= TruncDiv(duration * framerate, 1000)
        /\ bpc = "done" =>
             /\ written = TruncDiv(duration * framerate, 1000)
             /\ (error # "none") <=> (written = 0)
        /\ (duration = 300 /\ framerate = 44100 /\ bpc = "done")
             => written = 13230

\* C8's case: 0.3 s at 44100 Hz and volume 0.8 ran to its end.
C8_Witness ==
    /\ duration = 300
    /\ framerate = 44100
    /\ volume = 8
    /\ bpc = "done"
    /\ error = "none"
    /\ written = 13230

\* C9: with volume in [0, 1] every sample written has magnitude at most
\* 32767, so packing it never raises, and with volume 0 every sample is 0.
C9_SampleRange ==
    volume \in 0..10 =>
        /\ sample \in -32767..32767
        /\ error # "struct.error"
        /\ volume = 0 => sample = 0

\* C9's case: at volume 1 a sample reached the peak, -32767.
C9_Witness ==
    /\ volume = 10
    /\ written > 1
    /\ sample = -max_amplitude

----------------------------------------------------------------------------
(* Properties of the default sound of play_sound.py.                       *)

\* C11: with no sound_file given, a create_default_sound that returned None
\* ends main() at once in fail_json with nothing spawned; one that returned
\* its path makes that path the file every player is run on and the
\* sound_file that exit_json reports.
C11_DefaultSound ==
    (param = "" /\ pc # "main_start") =>
        /\ sound_file \in {"None", DefaultPath}
        /\ sound_file = "None" =>
             /\ pc = "done"
             /\ outcome = "fail_json"
             /\ spawned = <<>>
        /\ sound_file = DefaultPath =>
             /\ DefaultPath \in files
             /\ outcome # "fail_json"
             /\ \A i \in DOMAIN spawned :
                  spawned[i].kind = "play" => spawned[i].file = DefaultPath
             /\ pc = "done" => (outcome = "exit_json" /\ result = DefaultPath)

\* C11's case: no sound_file, not silent, every player installed, and the
\* default sound could not be created.
C11_Witness ==
    /\ param = ""
    /\ ~silent
    /\ installed = Players
    /\ sound_file = "None"
    /\ pc = "done"
    /\ outcome = "fail_json"

\* C11's other case: the created default sound was played and reported.
C11_WitnessPlayed ==
    /\ param = ""
    /\ PlayedOk
    /\ pc = "done"
    /\ result = DefaultPath

----------------------------------------------------------------------------
(* Properties of the callback and of sound_utils.py.                       *)

\* Some processed host failed or was unreachable.
AnyFailed == \E h \in DOMAIN stats :
                stats[h].failures > 0 \/ stats[h].unreachable > 0

\* The sound v2_playbook_on_stats is to play.
Chosen == IF AnyFailed THEN failure_sound ELSE success_sound

\* C12: v2_playbook_on_stats hands exactly one sound to _play_sound, the
\* failure sound exactly when some processed host has failures > 0 or
\* unreachable > 0 and the success sound otherwise (also with no host);
\* every player is run on that sound's file and none on another file, and
\* at the end a player was run exactly when that file exists on macOS,
\* Linux or Windows.
C12_ExactlyOneSound ==
    /\ cpc \in {"set_options", "stats"} => (handed = <<>> /\ spawned = <<>>)
    /\ cpc \in {"cb_darwin", "cb_linux", "cb_windows", "done"} =>
         /\ handed = << IF AnyFailed THEN "failure" ELSE "success" >>
         /\ sound_file = Chosen
         /\ \A i \in DOMAIN spawned :
              spawned[i].kind = "play" /\ spawned[i].file = Chosen
         /\ cpc = "done" =>
              ((spawned # <<>>) <=>
                 (Chosen \in files /\ system \in {"Darwin", "Linux", "Windows"}))

\* C12's case: two hosts, one of them unreachable and none failed; the
\* failure sound, a file of its own, was played.
C12_Witness ==
    /\ DOMAIN stats = {1, 2}
    /\ \A h \in DOMAIN stats : stats[h].failures = 0
    /\ stats[2].unreachable = 1
    /\ success_sound = CustomPath
    /\ failure_sound = FailurePath
    /\ cpc = "done"
    /\ \E i \in DOMAIN spawned :
         spawned[i].file = FailurePath /\ spawned[i].res = "ok"

\* C13: in the callback's _play_sound on Linux every failure of a player
\* that has a successor (an exception or a non-zero exit of aplay or of
\* paplay) is followed by the run of the next player.
C13_CallbackFallback ==
    (system = "Linux" /\ cpc = "done") =>
        \A i \in DOMAIN spawned :
          (spawned[i].res # "ok" /\ LinuxNext(spawned[i].prog) # "none") =>
            /\ i < Len(spawned)
            /\ spawned[i + 1].prog = LinuxNext(spawned[i].prog)

\* C14: without bundled sample sounds every successful call of
\* create_default_sound returns a file that holds the tone of the sound_type
\* asked for: 330 Hz for 'failure', 440 Hz for 'success'.
C14_DefaultTones ==
    (SuccessSample \notin files /\ FailureSample \notin files
       /\ calls # <<>> /\ ret # "None") =>
        /\ ret = DefaultPath
        /\ tone = Frequency(calls[Len(calls)])

====
